---- MODULE Spec2Model ----
(***************************************************************************)
(* Model of the claim-and-persist deduplication protocol of                *)
(* app/main.py (websocket_endpoint, process_persist,                       *)
(* _release_lock_if_owner), with the Redis coordinator (SET NX EX, GET,    *)
(* DEL, TTL expiry) and the events table (unique index on event_id).       *)
(*                                                                         *)
(* A session is one run of websocket_endpoint.  It takes one step at each  *)
(* external call it awaits: receive_text, redis SET, db commit, redis GET, *)
(* redis DEL.  The Python between two awaits touches only the session's    *)
(* own locals and is part of the step that follows it.                     *)
(*                                                                         *)
(* main.py imports Events and get_db_session; events_table.py defines the  *)
(* table class as Event and sessions.py the generator as                   *)
(* get_async_db_session.  The model reads the two names as those           *)
(* definitions.                                                            *)
(***************************************************************************)
EXTENDS Integers, Sequences, FiniteSets, TLC

\* ------------------------------------------------------------------ bounds
MaxFrames == 2        \* frames sent over all sessions

\* --------------------------------------------------------------- constants
Instances == {"I1", "I2"}          \* settings.instance_id of each process
Sessions == {"s1", "s2"}            \* client connections, each to either instance

\* ------------------------------------------------------------ Python values
PyNone == [t |-> "none"]
PyStr(s) == [t |-> "str", v |-> s]
PyDict(d) == [t |-> "dict", v |-> d]

EmptyDict == [k \in {} |-> TRUE]
ForceFail(b) == [force_fail |-> b]

\* ------------------------------------------------------------------ frames
\* A text frame is not JSON, JSON that is no object, or a JSON object.
Garbage == [json |-> FALSE]
NonObject == [json |-> TRUE, obj |-> FALSE]
Object(d) == [json |-> TRUE, obj |-> TRUE, doc |-> d]

Missing == [t |-> "missing"]
EventIds == {"E1", "E2"}
EventType == PyStr("shipment")
Payloads == {Missing, PyDict(EmptyDict), PyDict(ForceFail(TRUE)), PyDict(ForceFail(FALSE))}

\* The JSON object with the given members; a Missing member is left out.
MkDoc(i, ty, p) ==
    LET present == {f \in {"event_id", "event_type", "payload"} :
                      CASE f = "event_id" -> i # Missing
                        [] f = "event_type" -> ty # Missing
                        [] OTHER -> p # Missing}
    IN [f \in present |-> CASE f = "event_id" -> i
                             [] f = "event_type" -> ty
                             [] OTHER -> p]

\* Objects the schema accepts: event_id, event_type and any of the payloads.
ValidDocs == {MkDoc(PyStr(i), EventType, p) : i \in EventIds, p \in Payloads}

\* Objects it rejects: no event_id, an empty one, no event_type, a payload
\* that is no object.
InvalidDocs ==
    {MkDoc(Missing, EventType, PyDict(EmptyDict)),
     MkDoc(PyStr(""), EventType, PyDict(EmptyDict)),
     MkDoc(PyStr("E1"), Missing, PyDict(EmptyDict)),
     MkDoc(PyStr("E1"), EventType, PyStr("p"))}

Frames == {Garbage, NonObject} \cup {Object(d) : d \in ValidDocs \cup InvalidDocs}

\* ---------------------------------------------------------------- EventSchema
\* EventSchema(**json.loads(raw_data)): event_id a string of length >= 1,
\* event_type a string, payload a dict when given and None when left out.
NoEvent == [t |-> "noevent"]

SchemaValid(d) ==
    /\ "event_id" \in DOMAIN d
    /\ d["event_id"].t = "str"
    /\ Len(d["event_id"].v) >= 1
    /\ "event_type" \in DOMAIN d
    /\ d["event_type"].t = "str"
    /\ ("payload" \in DOMAIN d => d["payload"].t = "dict")

EventSchema(d) ==
    [t |-> "event",
     event_id |-> d["event_id"].v,
     event_type |-> d["event_type"].v,
     payload |-> IF "payload" \in DOMAIN d THEN d["payload"] ELSE PyNone]

ParseFrameEmptyIdAccepted(f) ==
    IF ~f.json THEN NoEvent
    ELSE IF ~f.obj THEN NoEvent
    ELSE IF ~(/\ "event_id" \in DOMAIN f.doc
              /\ f.doc["event_id"].t = "str"
              /\ "event_type" \in DOMAIN f.doc
              /\ f.doc["event_type"].t = "str"
              /\ ("payload" \in DOMAIN f.doc => f.doc["payload"].t = "dict"))
         THEN NoEvent
    ELSE EventSchema(f.doc)

\* The parse of one frame: the event, or NoEvent when one of the three
\* except clauses (or the empty event_id test) continues the loop.
ParseFrame(f) ==
    IF ~f.json THEN NoEvent                       \* json.JSONDecodeError
    ELSE IF ~f.obj THEN NoEvent                   \* TypeError: ** of a non-mapping
    ELSE IF ~SchemaValid(f.doc) THEN NoEvent      \* ValidationError
    ELSE IF EventSchema(f.doc).event_id = "" THEN NoEvent   \* if not event.event_id
    ELSE EventSchema(f.doc)

DedupKey(event_id) == "dedup:" \o event_id

\* ------------------------------------------------------------- coordinator
RedisSet(r, key, value) ==
    [reply |-> TRUE,
     store |-> [k \in DOMAIN r \cup {key} |-> IF k = key THEN value ELSE r[k]]]

\* redis_client.set(key, value, nx=True, ex=ttl): sets the key only when it
\* is absent; the reply is True when it was set and None otherwise.
RedisSetNX(r, key, value) ==
    IF key \in DOMAIN r
    THEN [reply |-> FALSE, store |-> r]
    ELSE [reply |-> TRUE,
          store |-> [k \in DOMAIN r \cup {key} |-> IF k = key THEN value ELSE r[k]]]

\* redis_client.get(key): the value (decode_responses=True), or None.
RedisGet(r, key) == IF key \in DOMAIN r THEN PyStr(r[key]) ELSE PyNone

\* redis_client.delete(key)
RedisDelete(r, key) == [k \in DOMAIN r \ {key} |-> r[k]]

\* --------------------------------------------------------------- the store
\* Event: id (auto), event_id (unique), event_type, payload.  The id of a
\* row is its position in the table.
EventRow(ev) ==
    [event_id |-> ev.event_id, event_type |-> ev.event_type, payload |-> ev.payload.v]

RowsOf(table, event_id) == {n \in 1..Len(table) : table[n].event_id = event_id}

CommitNoUniqueIndex(table, ev) ==
    [result |-> "ok", table |-> Append(table, EventRow(ev))]

CommitUpsert(table, ev) ==
    [result |-> "ok",
     table |-> IF RowsOf(table, ev.event_id) = {}
               THEN Append(table, EventRow(ev))
               ELSE [n \in 1..Len(table) |->
                       IF table[n].event_id = ev.event_id THEN EventRow(ev) ELSE table[n]]]

\* event_id = Column(String(255), ...): the column takes 255 characters.
EventIdColumnLength == 255

\* An event_id of n characters.
RECURSIVE Repeat(_, _)
Repeat(c, n) ==
    IF n = 0 THEN ""
    ELSE IF n % 2 = 0 THEN LET half == Repeat(c, n \div 2) IN half \o half
    ELSE c \o Repeat(c, n - 1)

IdOfLength(n) == Repeat("x", n)

\* db.add(db_item); await db.commit() with the store reachable: the store
\* refuses a value longer than the column (a DataError, no IntegrityError),
\* the unique index on event_id rejects a second row (IntegrityError, rolled
\* back), otherwise the row is appended.
Commit(table, ev) ==
    IF Len(ev.event_id) > EventIdColumnLength
    THEN [result |-> "DataError", table |-> table]
    ELSE IF RowsOf(table, ev.event_id) # {}
    THEN [result |-> "IntegrityError", table |-> table]
    ELSE [result |-> "ok", table |-> Append(table, EventRow(ev))]

\* event.payload.get("force_fail"): AttributeError on None, else the
\* member's truth value (None when the key is not in the dict).
ForcedFailure(ev) ==
    IF ev.payload = PyNone THEN "AttributeError"
    ELSE IF "force_fail" \in DOMAIN ev.payload.v /\ ev.payload.v["force_fail"] = TRUE
         THEN "raise"
         ELSE "pass"

OwnerMatchAnyValue(current_value, instance_id) == current_value # PyNone

OwnerMatchBytes(current_value, instance_id) ==
    current_value = [t |-> "bytes", v |-> instance_id]

\* current_value == INSTANCE_ID in _release_lock_if_owner
OwnerMatch(current_value, instance_id) == current_value = PyStr(instance_id)

VARIABLES
    pc,        \* pc[s]: where session s is in websocket_endpoint
    inst,      \* inst[s]: INSTANCE_ID of the process serving session s
    event,     \* event[s]: the EventSchema being processed, or NoEvent
    dedup_key, \* dedup_key[s]: the local dedup_key, or NoKey
    claimed,   \* claimed[s]: the local claimed
    outcome,   \* outcome[s]: how the last frame of session s ended
    redis,     \* the coordinator: dedup key -> value, absent keys not in DOMAIN
    rows,      \* the events table, in insertion order
    sent,      \* frames sent so far over all sessions
    faulted,   \* some call to the coordinator or the store has failed
    wonInserted, \* wonInserted[e]: attempts for e that saw Claim Won and Insert Inserted
    scenario,  \* what the clients send: any frame, or one given frame
    survived,  \* survived[s]: a frame of this connection of s ended in a failure
    holder,    \* holder[key]: the session whose Claim set the record now at key
    gone       \* gone[s]: the client of session s has closed its end

vars == <<pc, inst, event, dedup_key, claimed, outcome, redis, rows, sent, faulted,
          wonInserted, scenario, survived, holder, gone>>

NoKey == ""
NoInstance == ""

\* No connection yet, an empty coordinator and an empty events table.
Start ==
    /\ pc = [s \in Sessions |-> "closed"]
    /\ inst = [s \in Sessions |-> NoInstance]
    /\ event = [s \in Sessions |-> NoEvent]
    /\ dedup_key = [s \in Sessions |-> NoKey]
    /\ claimed = [s \in Sessions |-> FALSE]
    /\ outcome = [s \in Sessions |-> "none"]
    /\ redis = [k \in {} |-> NoInstance]
    /\ rows = <<>>
    /\ sent = 0
    /\ faulted = FALSE
    /\ wonInserted = [e \in EventIds |-> 0]
    /\ survived = [s \in Sessions |-> FALSE]
    /\ holder = [k \in {} |-> "s1"]
    /\ gone = [s \in Sessions |-> FALSE]

AnyFrame == [kind |-> "any"]
SameFrame(f) == [kind |-> "same", frame |-> f]

Init == Start /\ scenario = AnyFrame

\* The ways a frame ends without the event persisted or skipped: dropped
\* at the parse, the claim raised, or the persist failed and the release
\* found another owner, deleted the record, or raised.
FailureOutcomes == {"dropped", "claim_error", "not_owner", "released", "release_error"}

\* The loop continues: back to receive_text with the frame's outcome.
\* event and claimed are assigned again before they are next read, and the
\* model clears them; dedup_key keeps its value, the key outcome speaks of.
Continue(s, how) ==
    /\ pc' = [pc EXCEPT ![s] = "receive"]
    /\ event' = [event EXCEPT ![s] = NoEvent]
    /\ claimed' = [claimed EXCEPT ![s] = FALSE]
    /\ outcome' = [outcome EXCEPT ![s] = how]
    /\ survived' = [survived EXCEPT ![s] = @ \/ how \in FailureOutcomes]
    /\ UNCHANGED dedup_key

\* An external call that raises: the coordinator or the store is
\* unreachable for this call, and the call has no effect.
Fault == faulted' = TRUE

\* await websocket.accept(): a client connects to one of the instances.
Connect(s, i) ==
    /\ pc[s] = "closed"
    /\ pc' = [pc EXCEPT ![s] = "receive"]
    /\ inst' = [inst EXCEPT ![s] = i]
    /\ UNCHANGED <<event, dedup_key, claimed, outcome, redis, holder, rows, sent, faulted, wonInserted, scenario, gone, survived>>

\* receive_text raises WebSocketDisconnect (or a transport error): the
\* outer handlers log it and the finally clause leaves the loop.
Disconnect(s) ==
    /\ pc[s] = "receive"
    /\ pc' = [pc EXCEPT ![s] = "closed"]
    /\ inst' = [inst EXCEPT ![s] = NoInstance]
    /\ outcome' = [outcome EXCEPT ![s] = "none"]
    /\ dedup_key' = [dedup_key EXCEPT ![s] = NoKey]
    /\ survived' = [survived EXCEPT ![s] = FALSE]
    /\ gone' = [gone EXCEPT ![s] = FALSE]
    /\ UNCHANGED <<event, claimed, redis, holder, rows, sent, faulted, wonInserted, scenario>>

ClientGoneCancels(s) ==
    /\ pc[s] # "closed"
    /\ pc' = [pc EXCEPT ![s] = "closed"]
    /\ inst' = [inst EXCEPT ![s] = NoInstance]
    /\ event' = [event EXCEPT ![s] = NoEvent]
    /\ dedup_key' = [dedup_key EXCEPT ![s] = NoKey]
    /\ claimed' = [claimed EXCEPT ![s] = FALSE]
    /\ outcome' = [outcome EXCEPT ![s] = "none"]
    /\ survived' = [survived EXCEPT ![s] = FALSE]
    /\ UNCHANGED <<redis, holder, rows, sent, faulted, wonInserted, scenario, gone>>

\* The client closes its end of the connection; the server learns of it at
\* its next receive_text.
ClientGone(s) ==
    /\ pc[s] # "closed"
    /\ ~gone[s]
    /\ gone' = [gone EXCEPT ![s] = TRUE]
    /\ UNCHANGED <<pc, inst, event, dedup_key, claimed, outcome, redis, holder, rows,
                   sent, faulted, wonInserted, scenario, survived>>

ReceiveWhileBusy(s, f) ==
    /\ pc[s] \in {"receive", "persist"}
    /\ ~gone[s]
    /\ sent < MaxFrames
    /\ sent' = sent + 1
    /\ IF ParseFrame(f) = NoEvent
       THEN Continue(s, "dropped")
       ELSE /\ pc' = [pc EXCEPT ![s] = "claim"]
            /\ event' = [event EXCEPT ![s] = ParseFrame(f)]
            /\ dedup_key' = [dedup_key EXCEPT ![s] = DedupKey(ParseFrame(f).event_id)]
            /\ claimed' = [claimed EXCEPT ![s] = FALSE]
            /\ outcome' = [outcome EXCEPT ![s] = "pending"]
            /\ UNCHANGED survived
    /\ UNCHANGED <<inst, redis, holder, rows, faulted, wonInserted, scenario, gone>>

\* raw_data = await websocket.receive_text(), then the parse: a frame that
\* does not parse to an event with a non-empty event_id is dropped;
\* otherwise claimed = False and dedup_key is built.
Receive(s, f) ==
    /\ pc[s] = "receive"
    /\ ~gone[s]
    /\ sent < MaxFrames
    /\ sent' = sent + 1
    /\ IF ParseFrame(f) = NoEvent
       THEN Continue(s, "dropped")
       ELSE /\ pc' = [pc EXCEPT ![s] = "claim"]
            /\ event' = [event EXCEPT ![s] = ParseFrame(f)]
            /\ dedup_key' = [dedup_key EXCEPT ![s] = DedupKey(ParseFrame(f).event_id)]
            /\ claimed' = [claimed EXCEPT ![s] = FALSE]
            /\ outcome' = [outcome EXCEPT ![s] = "pending"]
            /\ UNCHANGED survived
    /\ UNCHANGED <<inst, redis, holder, rows, faulted, wonInserted, scenario, gone>>

\* The except clause around redis_client.set: logged, continue.
RedisErrorFallsThrough(s) ==
    /\ pc' = [pc EXCEPT ![s] = "persist"]
    /\ UNCHANGED <<event, dedup_key, claimed, outcome, survived>>

RedisError(s) == Continue(s, "claim_error")

\* redis_client.set raises.
ClaimUnavailable(s) ==
    /\ pc[s] = "claim"
    /\ Fault
    /\ RedisError(s)
    /\ UNCHANGED <<inst, redis, holder, rows, sent, wonInserted, scenario, gone>>

\* claimed = await redis_client.set(dedup_key, INSTANCE_ID, nx=True, ex=ttl)
\* and the test of claimed.
Claim(s) ==
    /\ pc[s] = "claim"
    /\ LET set == RedisSetNX(redis, dedup_key[s], inst[s])
       IN /\ redis' = set.store
          /\ holder' = IF set.reply
                       THEN [k \in DOMAIN set.store |->
                               IF k = dedup_key[s] THEN s ELSE holder[k]]
                       ELSE holder
          /\ IF set.reply
             THEN /\ pc' = [pc EXCEPT ![s] = "persist"]
                  /\ claimed' = [claimed EXCEPT ![s] = TRUE]
                  /\ UNCHANGED <<event, dedup_key, outcome, survived>>
             ELSE Continue(s, "skipped")
    /\ UNCHANGED <<inst, rows, sent, faulted, wonInserted, scenario, gone>>

\* The except clause of the processing block: on to
\* _release_lock_if_owner(dedup_key); the event is only logged after this,
\* and outcome keeps what db_error is.
ToRelease(s, db_error) ==
    /\ pc' = [pc EXCEPT ![s] = "release_get"]
    /\ event' = [event EXCEPT ![s] = NoEvent]
    /\ outcome' = [outcome EXCEPT ![s] = db_error]
    /\ UNCHANGED <<dedup_key, claimed, survived>>

\* process_persist on an exception that is no IntegrityError: rollback and
\* raise, into the except clause of the processing block.
CommitFailedSwallowed(s) == Continue(s, "inserted")

CommitFailed(s) == ToRelease(s, "persist_error")

\* The processing block up to the end of db.commit(): the force_fail test,
\* then process_persist with the store answering.
Persist(s) ==
    /\ pc[s] = "persist"
    /\ IF ForcedFailure(event[s]) # "pass"
       THEN /\ ToRelease(s, IF ForcedFailure(event[s]) = "raise"
                              THEN "forced_failure" ELSE "attribute_error")
            /\ UNCHANGED <<rows, wonInserted>>
       ELSE LET c == Commit(rows, event[s])
            IN IF c.result = "DataError"
               THEN /\ CommitFailed(s)
                    /\ UNCHANGED <<rows, wonInserted>>
               ELSE /\ rows' = c.table
                    /\ wonInserted' =
                          [e \in DOMAIN wonInserted |->
                             IF e = event[s].event_id /\ claimed[s] /\ c.result = "ok"
                             THEN wonInserted[e] + 1 ELSE wonInserted[e]]
                    /\ Continue(s, IF c.result = "ok" THEN "inserted" ELSE "duplicate")
    /\ UNCHANGED <<inst, redis, holder, sent, faulted, scenario, gone>>

\* db.commit() raises something other than IntegrityError: the store is
\* unreachable, or rejects the statement.
PersistError(s) ==
    /\ pc[s] = "persist"
    /\ ForcedFailure(event[s]) = "pass"
    /\ Fault
    /\ CommitFailed(s)
    /\ UNCHANGED <<inst, redis, holder, rows, sent, wonInserted, scenario, gone>>

\* current_value = await redis_client.get(dedup_key) and the owner test.
ReleaseGet(s) ==
    /\ pc[s] = "release_get"
    /\ IF OwnerMatch(RedisGet(redis, dedup_key[s]), inst[s])
       THEN /\ pc' = [pc EXCEPT ![s] = "release_delete"]
            /\ UNCHANGED <<event, dedup_key, claimed, outcome, survived>>
       ELSE Continue(s, "not_owner")
    /\ UNCHANGED <<inst, redis, holder, rows, sent, faulted, wonInserted, scenario, gone>>

\* await redis_client.delete(dedup_key)
ReleaseDelete(s) ==
    /\ pc[s] = "release_delete"
    /\ redis' = RedisDelete(redis, dedup_key[s])
    /\ holder' = [k \in DOMAIN holder \ {dedup_key[s]} |-> holder[k]]
    /\ Continue(s, "released")
    /\ UNCHANGED <<inst, rows, sent, faulted, wonInserted, scenario, gone>>

\* The except clause of _release_lock_if_owner: logged, and the function
\* returns to the loop.
ReleaseFailedRaises(s) ==
    /\ pc' = [pc EXCEPT ![s] = "closed"]
    /\ inst' = [inst EXCEPT ![s] = NoInstance]
    /\ event' = [event EXCEPT ![s] = NoEvent]
    /\ dedup_key' = [dedup_key EXCEPT ![s] = NoKey]
    /\ claimed' = [claimed EXCEPT ![s] = FALSE]
    /\ outcome' = [outcome EXCEPT ![s] = "none"]
    /\ survived' = [survived EXCEPT ![s] = FALSE]

ReleaseFailed(s) ==
    /\ Continue(s, "release_error")
    /\ UNCHANGED inst

\* The get or the delete of the release raises.
ReleaseError(s) ==
    /\ pc[s] \in {"release_get", "release_delete"}
    /\ Fault
    /\ ReleaseFailed(s)
    /\ UNCHANGED <<redis, holder, rows, sent, wonInserted, scenario, gone>>

\* The TTL (ex=settings.dedup_ttl_seconds) of a claim record elapses.
Expire(key) ==
    /\ key \in DOMAIN redis
    /\ redis' = RedisDelete(redis, key)
    /\ holder' = [k \in DOMAIN holder \ {key} |-> holder[k]]
    /\ UNCHANGED <<pc, inst, event, dedup_key, claimed, outcome, rows, sent, faulted, wonInserted, scenario, gone, survived>>

Next ==
    \/ \E s \in Sessions, i \in Instances : Connect(s, i)
    \/ \E s \in Sessions : Disconnect(s)
    \/ \E s \in Sessions, f \in Frames : Receive(s, f)
    \/ \E s \in Sessions : ClaimUnavailable(s)
    \/ \E s \in Sessions : Claim(s)
    \/ \E s \in Sessions : Persist(s)
    \/ \E s \in Sessions : PersistError(s)
    \/ \E s \in Sessions : ReleaseGet(s)
    \/ \E s \in Sessions : ReleaseDelete(s)
    \/ \E s \in Sessions : ReleaseError(s)
    \/ \E key \in DOMAIN redis : Expire(key)

Spec == Init /\ [][Next]_vars

\* ------------------------------------------------------ one frame, repeated
\* test_concurrent_deduplication, test_multi_instance_deduplication: every
\* client sends the same frame, on any instance, any number of times.
InitSame == Start /\ scenario \in {SameFrame(f) : f \in Frames}

NextSame ==
    \/ \E s \in Sessions, i \in Instances : Connect(s, i)
    \/ \E s \in Sessions : Disconnect(s)
    \/ \E s \in Sessions : Receive(s, scenario.frame)
    \/ \E s \in Sessions : ClaimUnavailable(s)
    \/ \E s \in Sessions : Claim(s)
    \/ \E s \in Sessions : Persist(s)
    \/ \E s \in Sessions : PersistError(s)
    \/ \E s \in Sessions : ReleaseGet(s)
    \/ \E s \in Sessions : ReleaseDelete(s)
    \/ \E s \in Sessions : ReleaseError(s)
    \/ \E key \in DOMAIN redis : Expire(key)

SpecSame == InitSame /\ [][NextSame]_vars

\* ------------------------------------------------- distinct ids, one payload
\* The loop of websocket_endpoint takes frame after frame: the n-th frame
\* sent carries the n-th event_id, every frame the same payload member.
EventIdSeq == <<"E1", "E2">>
Distinct(p) == [kind |-> "distinct", payload |-> p]
DistinctFrame(n) == Object(MkDoc(PyStr(EventIdSeq[n]), EventType, scenario.payload))

InitDistinct == Start /\ scenario \in {Distinct(p) : p \in Payloads}

NextDistinct ==
    \/ \E s \in Sessions, i \in Instances : Connect(s, i)
    \/ \E s \in Sessions : Disconnect(s)
    \/ \E s \in Sessions : sent < Len(EventIdSeq) /\ Receive(s, DistinctFrame(sent + 1))
    \/ \E s \in Sessions : ClaimUnavailable(s)
    \/ \E s \in Sessions : Claim(s)
    \/ \E s \in Sessions : Persist(s)
    \/ \E s \in Sessions : PersistError(s)
    \/ \E s \in Sessions : ReleaseGet(s)
    \/ \E s \in Sessions : ReleaseDelete(s)
    \/ \E s \in Sessions : ReleaseError(s)
    \/ \E key \in DOMAIN redis : Expire(key)

SpecDistinct == InitDistinct /\ [][NextDistinct]_vars

\* ------------------------------------------- store down, then up, one event
\* The coordinator answers every call; the store fails every commit for a
\* while and then recovers for good; the clients send one valid frame, any
\* number of times, the first time while the store is down.  The event loop runs every coroutine whose awaited call
\* has returned, so each step of an attempt is taken in the end.
Transient(f, store) == [kind |-> "transient", frame |-> f, store |-> store]

InitTransient == Start /\ scenario \in {Transient(Object(d), "down") : d \in ValidDocs}

Recover ==
    /\ scenario.store = "down"
    /\ sent >= 1
    /\ scenario' = [scenario EXCEPT !.store = "up"]
    /\ UNCHANGED <<pc, inst, event, dedup_key, claimed, outcome, redis, holder, rows,
                   sent, faulted, wonInserted, survived, gone>>

\* The commit of session s is answered: the store is up, or the forced
\* failure comes before the store is asked.
PersistAnswered(s) ==
    /\ pc[s] = "persist"
    /\ scenario.store = "up" \/ ForcedFailure(event[s]) # "pass"
    /\ Persist(s)

PersistRefused(s) == scenario.store = "down" /\ PersistError(s)

NextTransient ==
    \/ \E s \in Sessions, i \in Instances : Connect(s, i)
    \/ \E s \in Sessions : Disconnect(s)
    \/ \E s \in Sessions : Receive(s, scenario.frame)
    \/ \E s \in Sessions : Claim(s)
    \/ \E s \in Sessions : PersistAnswered(s)
    \/ \E s \in Sessions : PersistRefused(s)
    \/ \E s \in Sessions : ReleaseGet(s)
    \/ \E s \in Sessions : ReleaseDelete(s)
    \/ \E key \in DOMAIN redis : Expire(key)
    \/ Recover

FairTransient ==
    /\ WF_vars(Recover)
    /\ \A s \in Sessions :
         /\ WF_vars(Claim(s))
         /\ WF_vars(PersistAnswered(s))
         /\ WF_vars(ReleaseGet(s))
         /\ WF_vars(ReleaseDelete(s))

SpecTransient == InitTransient /\ [][NextTransient]_vars /\ FairTransient

\* ------------------------------------------------ clients that hang up
\* The clients send one valid frame, any number of times, and close their
\* end whenever they like, also while the frame is being processed.  Every
\* awaited call returns or raises, and the event loop resumes the coroutine.
HangupDocs == {MkDoc(PyStr("E1"), EventType, p) : p \in {Missing, PyDict(EmptyDict), PyDict(ForceFail(TRUE))}}

InitHangup == Start /\ scenario \in {SameFrame(Object(d)) : d \in HangupDocs}

ClaimReturns(s) == Claim(s) \/ ClaimUnavailable(s)
PersistReturns(s) == Persist(s) \/ PersistError(s)
ReleaseReturns(s) == ReleaseGet(s) \/ ReleaseDelete(s) \/ ReleaseError(s)
SeesHangup(s) == gone[s] /\ Disconnect(s)

NextHangup ==
    \/ \E s \in Sessions, i \in Instances : Connect(s, i)
    \/ \E s \in Sessions : Disconnect(s)
    \/ \E s \in Sessions : ClientGone(s)
    \/ \E s \in Sessions : Receive(s, scenario.frame)
    \/ \E s \in Sessions : ClaimUnavailable(s)
    \/ \E s \in Sessions : Claim(s)
    \/ \E s \in Sessions : Persist(s)
    \/ \E s \in Sessions : PersistError(s)
    \/ \E s \in Sessions : ReleaseGet(s)
    \/ \E s \in Sessions : ReleaseDelete(s)
    \/ \E s \in Sessions : ReleaseError(s)
    \/ \E key \in DOMAIN redis : Expire(key)

FairHangup ==
    \A s \in Sessions :
        /\ WF_vars(ClaimReturns(s))
        /\ WF_vars(PersistReturns(s))
        /\ WF_vars(ReleaseReturns(s))
        /\ WF_vars(SeesHangup(s))

SpecHangup == InitHangup /\ [][NextHangup]_vars /\ FairHangup

\* ------------------------------------------------ event ids at the limit
\* The clients send one frame whose event_id has as many characters as the
\* column takes, or one more.
LimitDocs ==
    {MkDoc(PyStr(IdOfLength(n)), EventType, p) :
        n \in {EventIdColumnLength, EventIdColumnLength + 1},
        p \in {PyDict(EmptyDict), PyDict(ForceFail(TRUE))}}

InitLimit == Start /\ scenario \in {SameFrame(Object(d)) : d \in LimitDocs}

NextLimit ==
    \/ \E s \in Sessions, i \in Instances : Connect(s, i)
    \/ \E s \in Sessions : Disconnect(s)
    \/ \E s \in Sessions : Receive(s, scenario.frame)
    \/ \E s \in Sessions : ClaimUnavailable(s)
    \/ \E s \in Sessions : Claim(s)
    \/ \E s \in Sessions : Persist(s)
    \/ \E s \in Sessions : PersistError(s)
    \/ \E s \in Sessions : ReleaseGet(s)
    \/ \E s \in Sessions : ReleaseDelete(s)
    \/ \E s \in Sessions : ReleaseError(s)
    \/ \E key \in DOMAIN redis : Expire(key)

SpecLimit == InitLimit /\ [][NextLimit]_vars

\* ==================================================================== claims
EventIdOf(key) == CHOOSE e \in EventIds : DedupKey(e) = key

\* The step is one of session s: it leaves the place pc[s] it was at.
Steps(s, at) == pc[s] = at /\ (pc'[s] # at \/ outcome'[s] # outcome[s])

\* The table only grows: every row stays where and what it is.
RowsKept == \A n \in 1..Len(rows) : n <= Len(rows') /\ rows'[n] = rows[n]

\* C1: in every reachable state the store holds at most one row for each
\* event_id, whatever the interleaving, the failures, the expiries and the
\* releases.
AtMostOneRowPerEventId == \A e \in EventIds : Cardinality(RowsOf(rows, e)) <= 1

\* A second attempt for an event_id that has its row reached the store.
SecondInsertRejected ==
    \E s \in Sessions :
        /\ outcome[s] = "duplicate"
        /\ Cardinality(RowsOf(rows, EventIdOf(dedup_key[s]))) = 1

\* No session is between receiving a frame and the end of its processing.
Quiescent == \A s \in Sessions : pc[s] \in {"closed", "receive"}

\* C2: the same valid event submitted N >= 1 times, on any sessions and
\* instances, with no failure of the coordinator or the store (a forced
\* failure counts as one of the store): once all processing has finished
\* the store holds exactly one row with its event_id, and every submission
\* ended inserted, Duplicate or duplicate-skipped.
ExactlyOneRowForSameEvent ==
    (/\ ParseFrame(scenario.frame) # NoEvent
     /\ ForcedFailure(ParseFrame(scenario.frame)) # "raise"
     /\ Quiescent
     /\ sent >= 1
     /\ ~faulted)
    => /\ Cardinality(RowsOf(rows, ParseFrame(scenario.frame).event_id)) = 1
       /\ \A s \in Sessions :
            outcome[s] \in {"none", "inserted", "duplicate", "skipped"}

\* The same of the events that carry a payload object.
ExactlyOneRowForSameEventWithPayload ==
    (/\ ParseFrame(scenario.frame) # NoEvent
     /\ ParseFrame(scenario.frame).payload # PyNone)
    => ExactlyOneRowForSameEvent

\* C3: an attempt that ends persisted (process_persist returned: the store
\* answered Inserted or Duplicate) has a row with its event_id in the store
\* when it returns, and no later step removes or changes a row.
PersistedHasRow ==
    [][/\ \A s \in Sessions :
            (Steps(s, "persist") /\ outcome'[s] \in {"inserted", "duplicate"})
                => RowsOf(rows', event[s].event_id) # {}
       /\ RowsKept]_vars

\* An attempt ended persisted and its row is in the store.
PersistedReturned ==
    \E s \in Sessions :
        /\ outcome[s] \in {"inserted", "duplicate"}
        /\ pc[s] = "receive"
        /\ RowsOf(rows, EventIdOf(dedup_key[s])) # {}

\* C4: no instance deletes a claim record whose value is another instance's
\* identity: a record goes by its owner's release or by TTL expiry only.
NoForeignDelete ==
    [][\A s \in Sessions :
          (Steps(s, "release_delete") /\ dedup_key[s] \in DOMAIN redis
             /\ dedup_key[s] \notin DOMAIN redis')
          => redis[dedup_key[s]] = inst[s]]_vars

\* C5: no two attempts for one event_id both observe Claim Won and Insert
\* Inserted.
NoTwoWonInserted == \A e \in EventIds : wonInserted[e] <= 1

\* A second attempt won the claim of an event_id already inserted by an
\* attempt that had won it, and has had its answer from the store.
SecondWinnerAnswered ==
    \E s \in Sessions :
        /\ outcome[s] = "duplicate"
        /\ wonInserted[EventIdOf(dedup_key[s])] = 1

\* C6: an attempt whose Claim returned Lost or raised ends there, with no
\* row written and no claim record deleted; only an attempt with claimed
\* set writes a row or deletes a record.
NotWonNoInsertNoRelease ==
    [][/\ \A s \in Sessions :
            (Steps(s, "claim") /\ ~claimed'[s])
                => pc'[s] = "receive" /\ rows' = rows /\ redis' = redis
       /\ rows' # rows =>
            \E s \in Sessions : claimed[s] /\ Steps(s, "persist")
       /\ \A k \in DOMAIN redis :
            (k \notin DOMAIN redis' /\ pc' # pc) =>
                \E s \in Sessions :
                    claimed[s] /\ Steps(s, "release_delete") /\ dedup_key[s] = k]_vars

\* The coordinator failed a claim while the store was up: nothing written.
ClaimFailedNothingWritten ==
    \E s \in Sessions :
        /\ outcome[s] = "claim_error"
        /\ rows = <<>>
        /\ dedup_key[s] \notin DOMAIN redis

\* C7 as stated: when an attempt that won the claim of an event_id has
\* failed its persist (forced failure or store error) and deleted its own
\* live claim record, the key is absent and the store holds no row with
\* that event_id.
FailedAttemptLeavesNoRow ==
    [][\A s \in Sessions :
          (/\ Steps(s, "release_delete")
           /\ outcome[s] \in {"forced_failure", "persist_error"}
           /\ outcome'[s] = "released"
           /\ dedup_key[s] \in DOMAIN redis
           /\ redis[dedup_key[s]] = inst[s])
          => /\ dedup_key[s] \notin DOMAIN redis'
             /\ RowsOf(rows', EventIdOf(dedup_key[s])) = {}]_vars

\* C7: an attempt that won the claim and whose persist fails (forced
\* failure or store error) writes no row; with the coordinator reachable
\* and its record still holding its identity the release goes on to the
\* delete, after which the key is absent, no row written by the release
\* either.  A later Claim that finds the key absent wins it, on any
\* instance, and an attempt the store answers Inserted leaves exactly one
\* row with its event_id, carrying that attempt's payload.
FailedPersistReleasesForRetry ==
    [][\A s \in Sessions :
          /\ (Steps(s, "persist") /\ pc'[s] = "release_get")
                => /\ outcome'[s] \in {"forced_failure", "persist_error", "attribute_error"}
                   /\ rows' = rows /\ redis' = redis
          /\ (/\ Steps(s, "release_get")
              /\ outcome[s] \in {"forced_failure", "persist_error"}
              /\ outcome'[s] # "release_error"
              /\ dedup_key[s] \in DOMAIN redis
              /\ redis[dedup_key[s]] = inst[s])
                => pc'[s] = "release_delete" /\ rows' = rows /\ redis' = redis
          /\ (Steps(s, "release_delete") /\ outcome'[s] = "released")
                => dedup_key[s] \notin DOMAIN redis' /\ rows' = rows
          /\ (/\ Steps(s, "claim")
              /\ outcome'[s] # "claim_error"
              /\ dedup_key[s] \notin DOMAIN redis)
                => /\ claimed'[s]
                   /\ pc'[s] = "persist"
                   /\ dedup_key[s] \in DOMAIN redis'
                   /\ redis'[dedup_key[s]] = inst[s]
          /\ (Steps(s, "persist") /\ outcome'[s] = "inserted")
                => /\ RowsOf(rows', event[s].event_id) = {Len(rows')}
                   /\ rows'[Len(rows')] = EventRow(event[s])
                   /\ RowsKept]_vars

\* A failed attempt released its claim, and another submission of the same
\* event_id then won the claim and was inserted: one row, its payload.
RetryPersisted ==
    \E s, r \in Sessions :
        /\ outcome[s] = "released"
        /\ outcome[r] = "inserted"
        /\ dedup_key[s] = dedup_key[r]
        /\ dedup_key[r] \in DOMAIN redis
        /\ redis[dedup_key[r]] = inst[r]
        /\ Len(rows) = 1
        /\ rows[1].event_id = EventIdOf(dedup_key[r])
        /\ rows[1].payload = ForceFail(FALSE)

\* C8: a row once inserted is never changed, removed or doubled by a later
\* submission of its event_id; the expiry of a claim record leaves the
\* store as it is; a submission that finds the key absent wins the claim,
\* and one that reaches the store while the row is there is answered
\* Duplicate, the table unchanged.
RowImmutable ==
    [][/\ RowsKept
       /\ \A e \in EventIds :
            RowsOf(rows, e) # {} => RowsOf(rows', e) = RowsOf(rows, e)
       /\ (pc' = pc /\ redis' # redis) => rows' = rows
       /\ \A s \in Sessions :
            /\ (/\ Steps(s, "claim")
                /\ outcome'[s] # "claim_error"
                /\ dedup_key[s] \notin DOMAIN redis)
                  => claimed'[s] /\ rows' = rows
            /\ (/\ Steps(s, "persist")
                /\ pc'[s] = "receive"
                /\ RowsOf(rows, event[s].event_id) # {})
                  => outcome'[s] = "duplicate" /\ rows' = rows]_vars

\* The claim of an inserted event_id has expired, and a resubmission has won
\* the claim anew and been answered Duplicate: still the one row.
ResubmittedAfterExpiry ==
    \E s, r \in Sessions :
        /\ outcome[r] = "inserted"
        /\ outcome[s] = "duplicate"
        /\ pc[s] = "receive"
        /\ dedup_key[s] = dedup_key[r]
        /\ dedup_key[s] \in DOMAIN redis
        /\ redis[dedup_key[s]] = inst[s]
        /\ Len(rows) = 1

\* A frame that is not JSON, is no JSON object, lacks event_id or
\* event_type, or carries the empty event_id.
Rejected(f) ==
    \/ ~f.json
    \/ ~f.obj
    \/ "event_id" \notin DOMAIN f.doc
    \/ "event_type" \notin DOMAIN f.doc
    \/ f.doc["event_id"] = PyStr("")

\* C9: when the frame the clients send is malformed, invalid or has an empty
\* event_id, no session ever gets to the claim step: every frame is
\* dropped, the coordinator holds no claim record and the store no row.
DroppedBeforeClaim ==
    Rejected(scenario.frame)
    => /\ \A s \in Sessions :
            /\ pc[s] \in {"closed", "receive"}
            /\ outcome[s] \in {"none", "dropped"}
       /\ DOMAIN redis = {}
       /\ rows = <<>>

\* Both sessions have had such a frame and dropped it.
RejectedFrameDropped ==
    /\ Rejected(scenario.frame)
    /\ \A s \in Sessions : outcome[s] = "dropped" /\ pc[s] = "receive"

\* The part of the resilience of a session the code keeps: a session closes
\* only from the read of the next frame, by a disconnect that touches
\* nothing else; a frame that ends in a failure (dropped, claim error,
\* persist failure with the release done, refused or failed) leaves the
\* session at the read, on its instance; and after such a failure the
\* session still wins the claim of an unclaimed event and, when its commit
\* is reached and answered, has it inserted.
SessionSurvivesFailures ==
    [][\A s \in Sessions :
          /\ (pc[s] # "closed" /\ pc'[s] = "closed")
                => /\ pc[s] = "receive"
                   /\ sent' = sent /\ redis' = redis /\ rows' = rows
                   /\ faulted' = faulted
          /\ (outcome'[s] # outcome[s] /\ outcome'[s] \in FailureOutcomes)
                => pc'[s] = "receive" /\ inst'[s] = inst[s] /\ survived'[s]
          /\ (/\ survived[s]
              /\ Steps(s, "claim")
              /\ outcome'[s] # "claim_error"
              /\ dedup_key[s] \notin DOMAIN redis)
                => claimed'[s] /\ pc'[s] = "persist"
          /\ (/\ survived[s]
              /\ Steps(s, "persist")
              /\ pc'[s] = "receive"
              /\ RowsOf(rows, event[s].event_id) = {})
                => /\ outcome'[s] = "inserted"
                   /\ RowsOf(rows', event[s].event_id) # {}]_vars

\* A session had a frame end in a failure and then an event inserted.
InsertedAfterFailure ==
    \E s \in Sessions : survived[s] /\ outcome[s] = "inserted"

\* C10: no single-event failure closes the session, as above, and a valid
\* event without a row that the session, after a failure, has won the claim
\* of is persisted: its attempt ends with the row inserted, unless the
\* store fails or the event asks for the forced failure.
SurvivorPersistsFresh ==
    /\ SessionSurvivesFailures
    /\ [][\A s \in Sessions :
            (/\ survived[s]
             /\ Steps(s, "persist")
             /\ claimed[s]
             /\ RowsOf(rows, event[s].event_id) = {}
             /\ outcome'[s] \notin {"persist_error", "forced_failure"})
            => /\ outcome'[s] = "inserted"
               /\ Cardinality(RowsOf(rows', event[s].event_id)) = 1]_vars

\* No InFlight step of a session touches the claim record or the row of an
\* event_id other than the one it is processing.
InFlight(s) == pc[s] \in {"claim", "persist", "release_get", "release_delete"}

NoInterference ==
    [][\A s \in Sessions :
          (InFlight(s) /\ Steps(s, pc[s]))
          => /\ \A k \in (DOMAIN redis \cup DOMAIN redis') \ {dedup_key[s]} :
                  k \in DOMAIN redis /\ k \in DOMAIN redis' /\ redis'[k] = redis[k]
             /\ \A e \in EventIds \ {EventIdOf(dedup_key[s])} :
                  /\ RowsOf(rows', e) = RowsOf(rows, e)
                  /\ \A n \in RowsOf(rows, e) : rows'[n] = rows[n]]_vars

\* C11: K valid events with pairwise distinct event_ids, submitted with no
\* failure of the coordinator or the store and no forced failure: once all
\* processing has finished the store holds exactly K rows, one per event_id.
OneRowPerDistinctEvent ==
    (/\ Quiescent
     /\ ~faulted
     /\ scenario.payload # PyDict(ForceFail(TRUE)))
    => /\ Len(rows) = sent
       /\ \A n \in 1..sent : Cardinality(RowsOf(rows, EventIdSeq[n])) = 1

\* The same of the events that carry a payload object.
OneRowPerDistinctEventWithPayload ==
    scenario.payload # Missing => OneRowPerDistinctEvent

\* A failed attempt that ends leaves no claim record of its own behind.
OwnClaimGoneAtEnd ==
    \A s \in Sessions :
        (pc[s] \in {"release_get", "release_delete"} /\ pc'[s] = "receive")
        => ~(dedup_key[s] \in DOMAIN redis' /\ holder'[dedup_key[s]] = s)

\* The event the clients send meets no forced failure.
NotForcedToFail == ForcedFailure(ParseFrame(scenario.frame)) # "raise"

\* The store is up again and an attempt holds the claim.
WonAfterRecovery ==
    scenario.store = "up" /\ \E s \in Sessions : pc[s] = "persist" /\ claimed[s]

\* C12: the coordinator up, the store failing for a while and succeeding
\* afterwards: the claim of an attempt whose persist failed is gone when the
\* attempt ends, and once a resubmission of the event holds the claim with
\* the store up again, the store comes to hold exactly one row for the event.
TransientThenOneRow ==
    /\ [][OwnClaimGoneAtEnd]_vars
    /\ (NotForcedToFail /\ WonAfterRecovery)
         ~> (Cardinality(RowsOf(rows, ParseFrame(scenario.frame).event_id)) = 1)

\* The same of the events that carry a payload object.
TransientThenOneRowWithPayload ==
    /\ [][OwnClaimGoneAtEnd]_vars
    /\ (/\ NotForcedToFail
        /\ ParseFrame(scenario.frame).payload # PyNone
        /\ WonAfterRecovery)
         ~> (Cardinality(RowsOf(rows, ParseFrame(scenario.frame).event_id)) = 1)

\* The record at key was set by an attempt that has ended persisted.
KeptRecord(key) ==
    /\ pc[holder[key]] = "receive"
    /\ outcome[holder[key]] \in {"inserted", "duplicate"}
    /\ dedup_key[holder[key]] = key

\* C13: an attempt that won the claim goes on to the release exactly when
\* its persist failed (forced failure, store error, or any other exception
\* of the processing block), and the release runs once, ending the attempt;
\* an attempt the store answers Inserted or Duplicate issues no delete, and
\* its claim record stays until the TTL removes it: no release after a
\* forced failure or a store error deletes it.
ReleaseIffPersistFailed ==
    [][/\ \A s \in Sessions :
            /\ Steps(s, "persist")
                 => /\ pc'[s] = "release_get"
                        <=> outcome'[s] \in {"forced_failure", "persist_error", "attribute_error"}
                    /\ pc'[s] # "release_get"
                        => /\ outcome'[s] \in {"inserted", "duplicate"}
                           /\ pc'[s] = "receive"
                           /\ redis' = redis
            /\ pc'[s] = "release_get" => pc[s] \in {"persist", "release_get"}
            /\ Steps(s, "release_get") => pc'[s] \in {"release_delete", "receive"}
            /\ Steps(s, "release_delete") => pc'[s] = "receive"
       /\ \A k \in DOMAIN redis :
            (/\ k \notin DOMAIN redis'
             /\ \E s \in Sessions :
                  /\ Steps(s, "release_delete")
                  /\ outcome[s] \in {"forced_failure", "persist_error"})
            => ~KeptRecord(k)]_vars

\* C14: a release whose read finds the key absent or holding another
\* instance's identity deletes nothing and leaves the coordinator as it is;
\* the delete is issued only after a read that returned the caller's own
\* identity, and no other step of a session removes a claim record.
ReleaseOnlyOnOwnValue ==
    [][/\ \A s \in Sessions :
            /\ (/\ Steps(s, "release_get")
                /\ \/ dedup_key[s] \notin DOMAIN redis
                   \/ redis[dedup_key[s]] # inst[s])
                  => pc'[s] = "receive" /\ redis' = redis
            /\ (pc'[s] = "release_delete" /\ pc[s] # "release_delete")
                  => /\ pc[s] = "release_get"
                     /\ dedup_key[s] \in DOMAIN redis
                     /\ redis[dedup_key[s]] = inst[s]
                     /\ redis' = redis
       /\ \A k \in DOMAIN redis :
            (k \notin DOMAIN redis' /\ pc' # pc)
            => \E s \in Sessions :
                  pc[s] = "release_delete" /\ pc'[s] = "receive" /\ dedup_key[s] = k]_vars

\* A release found the record of another instance and left it there.
NotOwnerLeftAlone ==
    \E s \in Sessions :
        /\ outcome[s] = "not_owner"
        /\ pc[s] = "receive"
        /\ dedup_key[s] \in DOMAIN redis
        /\ redis[dedup_key[s]] # inst[s]

\* C15: a Claim the coordinator answers while the key holds a record returns
\* Lost and leaves the record, its value and its expiry as they are; on an
\* absent key it returns Won and the record holds the claimant's identity,
\* so of the Claims racing for an absent key the first wins and the others
\* lose; a Claim that raises changes nothing.
ClaimSetIfAbsent ==
    [][\A s \in Sessions :
          Steps(s, "claim")
          => IF outcome'[s] = "claim_error"
             THEN redis' = redis /\ holder' = holder
             ELSE IF dedup_key[s] \in DOMAIN redis
             THEN /\ outcome'[s] = "skipped"
                  /\ ~claimed'[s]
                  /\ redis' = redis
                  /\ holder' = holder
             ELSE /\ claimed'[s]
                  /\ pc'[s] = "persist"
                  /\ DOMAIN redis' = DOMAIN redis \cup {dedup_key[s]}
                  /\ redis'[dedup_key[s]] = inst[s]
                  /\ holder'[dedup_key[s]] = s
                  /\ \A k \in DOMAIN redis : redis'[k] = redis[k]]_vars

\* Two instances claimed one event_id: one holds the record, the other lost.
OneWonOtherLost ==
    \E s, r \in Sessions :
        /\ inst[s] # inst[r]
        /\ pc[s] = "persist"
        /\ claimed[s]
        /\ outcome[r] = "skipped"
        /\ dedup_key[r] = dedup_key[s]
        /\ dedup_key[s] \in DOMAIN redis
        /\ redis[dedup_key[s]] = inst[s]
        /\ holder[dedup_key[s]] = s

\* C16: for each event_id at most one attempt is between having won the
\* claim and having finished its persist step.
SingleFlight ==
    \A e \in EventIds :
        Cardinality({s \in Sessions :
            pc[s] = "persist" /\ claimed[s] /\ dedup_key[s] = DedupKey(e)}) <= 1

\* C17: when a Claim returns Lost and the attempt is skipped, a row for the
\* event_id is in the store or another attempt that won its claim is still
\* at its persist or its release.
SkipMeansPersistedOrInFlight ==
    [][\A s \in Sessions :
          (Steps(s, "claim") /\ outcome'[s] = "skipped")
          => \/ RowsOf(rows, event[s].event_id) # {}
             \/ \E r \in Sessions \ {s} :
                  /\ pc[r] \in {"persist", "release_get", "release_delete"}
                  /\ claimed[r]
                  /\ dedup_key[r] = dedup_key[s]]_vars

\* C18: no step of a release leaves the loop or writes to the store; a
\* release that raises or finds another owner ends the attempt at the read
\* of the next frame, the store and the coordinator as they were;
\* a later Claim on the key, once absent, wins; and the store never holds
\* two rows for one event_id.
MissedReleaseTolerated ==
    /\ [](\A e \in EventIds : Cardinality(RowsOf(rows, e)) <= 1)
    /\ [][\A s \in Sessions :
            /\ (pc[s] \in {"release_get", "release_delete"} /\ pc'[s] # pc[s])
                  => pc'[s] \in {"release_delete", "receive"} /\ rows' = rows
            /\ (/\ pc[s] \in {"release_get", "release_delete"}
                /\ outcome'[s] # outcome[s]
                /\ outcome'[s] \in {"release_error", "not_owner"})
                  => /\ pc'[s] = "receive"
                     /\ inst'[s] = inst[s]
                     /\ rows' = rows
                     /\ redis' = redis
            /\ (/\ Steps(s, "claim")
                /\ outcome'[s] # "claim_error"
                /\ dedup_key[s] \notin DOMAIN redis)
                  => pc'[s] = "persist" /\ claimed'[s]]_vars

\* A release failed and left its claim record; the record expired, another
\* submission of the event_id won the claim anew and was inserted.
MissedReleaseThenRetried ==
    \E s, r \in Sessions :
        /\ s # r
        /\ outcome[s] = "release_error"
        /\ outcome[r] = "inserted"
        /\ dedup_key[s] = dedup_key[r]
        /\ dedup_key[r] \in DOMAIN redis
        /\ holder[dedup_key[r]] = r
        /\ Len(rows) = 1

\* How a frame ends.
TerminalOutcomes ==
    {"dropped", "skipped", "claim_error", "inserted", "duplicate",
     "released", "not_owner", "release_error"}

\* C19: a session starts on a frame only from the read, the frame before it
\* ended; while it works on a frame it takes no other frame and its event
\* is not replaced; sessions work on their frames side by side.
OneFrameAtATime ==
    [][\A s \in Sessions :
          /\ (pc'[s] = "claim" /\ pc[s] # "claim")
                => /\ pc[s] = "receive"
                   /\ outcome[s] \in TerminalOutcomes \cup {"none"}
                   /\ sent' = sent + 1
          /\ (InFlight(s) /\ sent' # sent)
                => pc'[s] = pc[s] /\ event'[s] = event[s]
          /\ (event[s] # NoEvent /\ event'[s] # NoEvent)
                => event'[s] = event[s]
          /\ (InFlight(s) /\ pc'[s] = "receive")
                => outcome'[s] \in TerminalOutcomes]_vars

\* Two sessions are at work on the same event_id at once, one at its
\* persist, the other at its release.
SessionsInterleave ==
    \E s, r \in Sessions :
        /\ s # r
        /\ pc[s] = "persist"
        /\ pc[r] \in {"release_get", "release_delete"}
        /\ dedup_key[s] = dedup_key[r]

\* C20: a session at work on a frame does not end, whether its client has
\* hung up or not: it ends only from the read.  The step after a won claim
\* is the insert attempt, which ends the attempt or goes on to the release,
\* and the release ends the attempt; and every attempt that won its claim
\* gets to its end, where the session reads again or, the client gone, ends.
WonClaimRunsToEnd ==
    /\ [][\A s \in Sessions :
            /\ InFlight(s) => pc'[s] # "closed"
            /\ (pc[s] # "closed" /\ pc'[s] = "closed") => pc[s] = "receive"
            /\ (pc[s] = "claim" /\ claimed'[s]) => pc'[s] = "persist"
            /\ Steps(s, "persist")
                 => \/ pc'[s] = "receive" /\ outcome'[s] \in {"inserted", "duplicate"}
                    \/ pc'[s] = "release_get"
            /\ Steps(s, "release_get") => pc'[s] \in {"release_delete", "receive"}
            /\ Steps(s, "release_delete") => pc'[s] = "receive"]_vars
    /\ \A s \in Sessions :
         (pc[s] = "persist" /\ claimed[s]) ~> (pc[s] \in {"receive", "closed"})
    /\ \A s \in Sessions :
         (gone[s] /\ pc[s] # "closed") ~> (pc[s] = "closed")

\* The client has hung up and the attempt, its insert failed, is at its
\* release.
ReleaseAfterHangup ==
    \E s \in Sessions :
        /\ gone[s]
        /\ claimed[s]
        /\ pc[s] = "release_delete"

\* A frame that is a JSON object whose event_id is a string of more
\* characters than the column takes.
TooLong(f) ==
    /\ f.json
    /\ f.obj
    /\ "event_id" \in DOMAIN f.doc
    /\ f.doc["event_id"].t = "str"
    /\ Len(f.doc["event_id"].v) > EventIdColumnLength

\* What the code does with such a frame: the store never holds a row for
\* it, the insert that was attempted ends in the release, and a session at
\* work on it is past validation.
TooLongRefusedByStore ==
    TooLong(scenario.frame)
    => /\ rows = <<>>
       /\ \A s \in Sessions : outcome[s] \notin {"inserted", "duplicate"}

\* An event_id that just fits is inserted.
AtLimitPersisted ==
    /\ ~TooLong(scenario.frame)
    /\ Len(rows) = 1
    /\ Len(rows[1].event_id) = EventIdColumnLength

\* C21: when the frame the clients send has an event_id of more than 255
\* characters, it is dropped at validation: no session gets to the claim
\* step or to the insert, the coordinator holds no claim record and the
\* store no row.
TooLongDroppedBeforeClaim ==
    TooLong(scenario.frame)
    => /\ \A s \in Sessions :
            /\ pc[s] \in {"closed", "receive"}
            /\ outcome[s] \in {"none", "dropped"}
       /\ DOMAIN redis = {}
       /\ rows = <<>>

\* A frame the schema accepts that has no payload member, and one whose
\* payload is an object that does not ask for the forced failure.
Payloadless(f) ==
    /\ f.json /\ f.obj
    /\ SchemaValid(f.doc)
    /\ "payload" \notin DOMAIN f.doc

CarriesPayload(f) ==
    /\ f.json /\ f.obj
    /\ SchemaValid(f.doc)
    /\ "payload" \in DOMAIN f.doc
    /\ ForcedFailure(EventSchema(f.doc)) = "pass"

\* The frame read by session s goes on to the claim step, and the claim of
\* an event_id that has no claim record is won when the coordinator answers.
AcceptedAndClaimed(s) ==
    /\ (Steps(s, "receive") /\ pc'[s] # "closed")
          => pc'[s] = "claim" /\ event'[s] = ParseFrame(scenario.frame)
    /\ (Steps(s, "claim") /\ dedup_key[s] \notin DOMAIN redis /\ ~faulted')
          => pc'[s] = "persist" /\ claimed'[s]

\* The attempt of session s that won the claim of an event_id without a row
\* ends with its row inserted, no call having failed.
FreshPersisted(s) ==
    (/\ Steps(s, "persist")
     /\ claimed[s]
     /\ RowsOf(rows, event[s].event_id) = {}
     /\ ~faulted')
    => /\ outcome'[s] = "inserted"
       /\ Cardinality(RowsOf(rows', event[s].event_id)) = 1

PayloadlessAcceptedAndClaimed ==
    [][Payloadless(scenario.frame) => \A s \in Sessions : AcceptedAndClaimed(s)]_vars

WithPayloadPersisted ==
    [][CarriesPayload(scenario.frame)
         => \A s \in Sessions : AcceptedAndClaimed(s) /\ FreshPersisted(s)]_vars

\* However often it is sent, a frame without a payload member never gets a
\* row: the server has no retry of its own, and every submission ends in
\* the release.
PayloadlessNeverStored == Payloadless(scenario.frame) => rows = <<>>

\* C22: when the frame the clients send is valid and has no payload member,
\* it is accepted, the claim of its unclaimed event_id is won, and the
\* attempt that won it for an event_id without a row inserts one row, as
\* long as no call to the coordinator or the store has failed.
PayloadOptional ==
    [][Payloadless(scenario.frame)
         => \A s \in Sessions : AcceptedAndClaimed(s) /\ FreshPersisted(s)]_vars
====
